---------------------------- MODULE Spec2Model ----------------------------
(***************************************************************************)
(* A model of the analytic functions of CoolStat.py: the pass classifier   *)
(* (load_passes, filter_passes), the heatmap and shot filters, the pass    *)
(* network builder (filter_pass_network) and the lineup split of main().   *)
(*                                                                         *)
(* A pandas DataFrame is a sequence of rows (records); every row carries   *)
(* its index label in the field "index" and the identifier of its event    *)
(* in the column "id", so that a row can be followed through filters and   *)
(* merges.  A null cell (None / NaN) of a text column is the value None.   *)
(* A location cell is a record [t, x, y]: t = "null" is a null cell,       *)
(* t = "list" the native pair [x, y], t = "str" the text "[x, y]" and      *)
(* t = "badstr" a text that is no Python literal, t = "num" a native       *)
(* number x and t = "strnum" the text of the number x.  A function that    *)
(* raises returns Error(kind) in place of its result.                      *)
(***************************************************************************)
EXTENDS Integers, Sequences, FiniteSets, TLC

VARIABLES
    selected_competition,  \* the competition chosen in the sidebar
    events,      \* load_events(selected_competition): the event table
    other_events,  \* the event table of the competition that is not selected
    cache,       \* st.cache_data: the results kept, by function and arguments
    df,          \* Sbopen().event(match_id): the StatsBomb event frame
    df_lineup,   \* Sbopen().lineup(match_id): the StatsBomb lineup frame
    lineups,     \* load_lineups(selected_competition): the lineup table
    other_lineups,  \* the lineup table of the competition that is not selected
    call,        \* the last analytic call: its name and arguments
    ret          \* what that call returned (or the error it raised)

vars == <<selected_competition, events, other_events, cache, df, df_lineup,
          lineups, other_lineups, call, ret>>

-----------------------------------------------------------------------------
(* Bounds of the model *)

MaxEvents == 2      \* rows of the event table
MaxFrame == 4       \* rows of the StatsBomb event frame
MaxLineup == 3      \* rows of the lineup table
MaxPoints == 3      \* rows of the event table of a heatmap
MaxCached == 1      \* rows of each event table when the competition changes

-----------------------------------------------------------------------------
(* Cells *)

None == "None"

Absent == [t |-> "null", x |-> 0, y |-> 0]
Loc(x, y) == [t |-> "list", x |-> x, y |-> y]
Text(x, y) == [t |-> "str", x |-> x, y |-> y]
BadText == [t |-> "badstr", x |-> 0, y |-> 0]
Num(n) == [t |-> "num", x |-> n, y |-> 0]
TextNum(n) == [t |-> "strnum", x |-> n, y |-> 0]

isinstance_str(loc) == loc.t \in {"str", "badstr", "strnum"}

\* ast.literal_eval raises on a text that is no literal
literal_eval_raises(loc) == loc.t = "badstr"

\* ast.literal_eval(loc): the text "[x, y]" becomes the list [x, y], the
\* text of a number that number
literal_eval(loc) == IF loc.t = "strnum" THEN Num(loc.x) ELSE Loc(loc.x, loc.y)

\* lambda loc: ast.literal_eval(loc) if isinstance(loc, str) else loc
decode_location(loc) == IF isinstance_str(loc) THEN literal_eval(loc) ELSE loc

decode_raises(loc) == isinstance_str(loc) /\ literal_eval_raises(loc)

isnull(v) == v = None
notnull(v) == v # None
loc_notnull(loc) == loc.t # "null"

\* the cell is a list, with elements [0] and [1]
is_list(loc) == loc.t = "list"

-----------------------------------------------------------------------------
(* Sequence helpers *)

Range(s) == {s[i] : i \in 1..Len(s)}
Ids(s) == {s[i].id : i \in 1..Len(s)}
Map(s, F(_)) == [i \in 1..Len(s) |-> F(s[i])]
Occurrences(s, id) == Cardinality({i \in 1..Len(s) : s[i].id = id})

\* a table read from the database: the i-th row has the index label i - 1
\* (a RangeIndex) and, in its column "id", an identifier of its own
WithIndex(rows) == [i \in 1..Len(rows) |-> [index |-> i - 1, id |-> i] @@ rows[i]]

\* DataFrame.reset_index(drop=True)
reset_index(rows) == [i \in 1..Len(rows) |-> [rows[i] EXCEPT !.index = i - 1]]

SeqsUpTo(S, n) == UNION {[1..k -> S] : k \in 0..n}

Error(kind) == [status |-> "error", error |-> kind]

-----------------------------------------------------------------------------
(* The event table of the selected competition *)

Matches == {1, 2}
Teams == {"Spain", "France"}
Players == {"Pedri", "Mbappe"}
TeamOf(player) == IF player = "Pedri" THEN "Spain" ELSE "France"

PassRow(m, p, ptype, outcome, loc, endloc) ==
    [match_id |-> m, type |-> "Pass", team |-> TeamOf(p), player |-> p,
     pass_type |-> ptype, pass_outcome |-> outcome,
     location |-> loc, pass_end_location |-> endloc, shot_type |-> None]

ShotRow(m, p, stype, loc) ==
    [match_id |-> m, type |-> "Shot", team |-> TeamOf(p), player |-> p,
     pass_type |-> None, pass_outcome |-> None,
     location |-> loc, pass_end_location |-> Absent, shot_type |-> stype]

\* the rows an event table is drawn from: every pass type and outcome with
\* both locations present, every combination of absent locations, textual
\* and malformed locations, locations that are a number or the text of a
\* number, shots with and without a location, and rows of another match and
\* of another player
EventRows ==
       {PassRow(1, "Pedri", pt, po, Loc(3, 4), Loc(5, 6)) :
            pt \in {None, "Throw-in", "Corner"}, po \in {None, "Incomplete", "Out"}}
  \cup {PassRow(1, "Pedri", None, po, l[1], l[2]) :
            po \in {None, "Incomplete"},
            l \in {<<Absent, Loc(5, 6)>>, <<Loc(3, 4), Absent>>, <<Absent, Absent>>}}
  \cup {PassRow(1, "Pedri", None, None, Text(3, 4), Text(5, 6)),
        PassRow(1, "Pedri", None, None, BadText, Loc(5, 6)),
        PassRow(1, "Pedri", None, None, Num(7), Loc(5, 6))}
  \cup {PassRow(1, "Mbappe", None, po, Loc(7, 8), Loc(5, 6)) : po \in {None, "Incomplete"}}
  \cup {PassRow(2, "Pedri", None, None, Loc(3, 4), Loc(5, 6))}
  \cup {ShotRow(1, "Pedri", st, l) :
            st \in {"Open Play", "Penalty"}, l \in {Loc(9, 4), Absent}}
  \cup {ShotRow(1, "Mbappe", "Open Play", Text(9, 4)),
        ShotRow(1, "Pedri", "Open Play", Num(7)),
        ShotRow(1, "Pedri", "Open Play", TextNum(7)),
        ShotRow(2, "Pedri", "Open Play", Loc(9, 4))}

\* the tables of the passes tab and of the shots tab
PassRows == {e \in EventRows : e.type = "Pass"}
PassTables == {WithIndex(rows) : rows \in SeqsUpTo(PassRows, MaxEvents)}

ShotRows == {e \in EventRows : e.type = "Shot"}
ShotTables == {WithIndex(rows) : rows \in SeqsUpTo(ShotRows, MaxEvents)}

-----------------------------------------------------------------------------
(* st.cache_data: the memoization of the decorated functions *)

\* the value a call of a decorated function returns: the one kept under
\* the key (the name of the function and its arguments), else the one its
\* body computes
cached(key, computed) == IF key \in DOMAIN cache THEN cache[key] ELSE computed

\* the store after the call: a value the body returned is kept under the
\* key; an exception is not kept, and a kept value is not replaced
cache_store(kept, key, computed) ==
    IF key \in DOMAIN kept \/ computed.status # "ok" THEN kept
    ELSE (key :> computed) @@ kept

-----------------------------------------------------------------------------
(* load_passes, filter_passes, pass_map *)

\* events[(events["type"] == "Pass") & (events["match_id"] == match_id)]
match_passes(match_id) ==
    SelectSeq(events, LAMBDA e : e.type = "Pass" /\ e.match_id = match_id)

\* passes[passes['location'].notnull() & passes['pass_end_location'].notnull()]
valid_locations(passes) ==
    SelectSeq(passes, LAMBDA e : loc_notnull(e.location) /\ loc_notnull(e.pass_end_location))

\* passes[['x', 'y']] = pd.DataFrame(passes['location'].tolist(), ...)
with_xy(e) == [x |-> e.location.x, y |-> e.location.y] @@ e

with_end_xy(e) ==
    [pass_end_x |-> e.pass_end_location.x, pass_end_y |-> e.pass_end_location.y] @@ e

\* pd.DataFrame(rows[column].tolist(), ...) assigned to two columns.  A
\* frame built of no rows, or of rows the first of which is no list, has not
\* the two columns the assignment needs (ValueError, "Columns must be same
\* length as key"); a cell after a list that is no list has no length
\* (TypeError).
list_column_error(rows, column) ==
    IF Len(rows) = 0 \/ ~is_list(rows[1][column]) THEN "ValueError"
    ELSE IF \E i \in 1..Len(rows) : ~is_list(rows[i][column]) THEN "TypeError"
    ELSE None

\* load_passes(match_id): the decoded passes of the match that carry both
\* locations, or the error raised on the way.
load_passes(match_id) ==
    LET passes == match_passes(match_id)
        decoded == Map(passes, LAMBDA e :
                       [e EXCEPT !.location = decode_location(@),
                                 !.pass_end_location = decode_location(@)])
        valid == valid_locations(decoded)
    IN  IF \E i \in 1..Len(passes) : decode_raises(passes[i].location)
                                     \/ decode_raises(passes[i].pass_end_location)
        THEN Error("MalformedLiteral")
        ELSE IF list_column_error(valid, "location") # None
        THEN Error(list_column_error(valid, "location"))
        ELSE IF list_column_error(valid, "pass_end_location") # None
        THEN Error(list_column_error(valid, "pass_end_location"))
        ELSE [status |-> "ok",
              passes |-> Map(valid, LAMBDA e : with_end_xy(with_xy(e)))]

\* a variant that keeps the throw-ins
drop_throw_ins_kept(passes) == passes

\* passes[passes["pass_type"] != "Throw-in"]
drop_throw_ins(passes) == SelectSeq(passes, LAMBDA e : e.pass_type # "Throw-in")

\* passes[passes["player"] == player]
of_player(passes, player) == SelectSeq(passes, LAMBDA e : e.player = player)

\* a variant that takes every outcome but "Incomplete" for a success
successful_passes_not_incomplete(player_passes) ==
    SelectSeq(player_passes, LAMBDA e : e.pass_outcome # "Incomplete")

\* player_passes[player_passes["pass_outcome"].isnull()]
successful_passes(player_passes) ==
    SelectSeq(player_passes, LAMBDA e : isnull(e.pass_outcome))

\* a variant that takes only the outcome "Incomplete" for a failure
unsuccessful_passes_incomplete(player_passes) ==
    SelectSeq(player_passes, LAMBDA e : e.pass_outcome = "Incomplete")

\* player_passes[player_passes["pass_outcome"].notnull()]
unsuccessful_passes(player_passes) ==
    SelectSeq(player_passes, LAMBDA e : notnull(e.pass_outcome))

filter_passes(player, match_id) ==
    LET loaded == load_passes(match_id)
        player_passes == of_player(drop_throw_ins(loaded.passes), player)
    IN  IF loaded.status # "ok" THEN loaded
        ELSE [status |-> "ok",
              successful |-> successful_passes(player_passes),
              unsuccessful |-> unsuccessful_passes(player_passes)]

\* a call of filter_passes under @st.cache_data, and the store after it
memoized_filter_passes(player, match_id) ==
    cached(<<"filter_passes", player, match_id>>, filter_passes(player, match_id))

store_filter_passes(kept, player, match_id) ==
    cache_store(kept, <<"filter_passes", player, match_id>>,
                filter_passes(player, match_id))

\* pitch.arrows(passes["x"], passes["y"], passes["pass_end_x"], passes["pass_end_y"])
arrows(passes) ==
    Map(passes, LAMBDA e : [id |-> e.id, x |-> e.x, y |-> e.y,
                            pass_end_x |-> e.pass_end_x, pass_end_y |-> e.pass_end_y])

\* pass_map(player, match_id): the arrows drawn, green and red
pass_map(player, match_id) ==
    LET passes == memoized_filter_passes(player, match_id)
    IN  IF passes.status # "ok" THEN passes
        ELSE [status |-> "ok",
              green |-> arrows(passes.successful),
              red |-> arrows(passes.unsuccessful)]

\* a call of pass_map under @st.cache_data: the figure kept is shown again
memoized_pass_map(player, match_id) ==
    cached(<<"pass_map", player, match_id>>, pass_map(player, match_id))

\* the body is run only when no figure is kept, and filter_passes with it
store_pass_map(kept, player, match_id) ==
    IF <<"pass_map", player, match_id>> \in DOMAIN kept THEN kept
    ELSE cache_store(store_filter_passes(kept, player, match_id),
                     <<"pass_map", player, match_id>>, pass_map(player, match_id))

-----------------------------------------------------------------------------
(* filter_heatmap, filter_shots, shot_map *)

\* match_events[(match_events["type"] == "Pass") & (match_events["team"] == team)]
team_events(type, team, match_id) ==
    SelectSeq(SelectSeq(events, LAMBDA e : e.match_id = match_id),
              LAMBDA e : e.type = type /\ e.team = team)

decode_location_column(rows) ==
    Map(rows, LAMBDA e : [e EXCEPT !.location = decode_location(@)])

location_raises(rows) == \E i \in 1..Len(rows) : decode_raises(rows[i].location)

\* team_passes[['x', 'y']] = pd.DataFrame(team_passes['location'].tolist(), ...)
xy_assignment_error(rows) == list_column_error(rows, "location")

filter_heatmap(team, match_id) ==
    LET team_passes == team_events("Pass", team, match_id)
        decoded == decode_location_column(team_passes)
    IN  IF location_raises(team_passes) THEN Error("MalformedLiteral")
        ELSE IF xy_assignment_error(decoded) # None
        THEN Error(xy_assignment_error(decoded))
        ELSE [status |-> "ok", team_passes |-> Map(decoded, with_xy)]

\* a call of filter_heatmap under @st.cache_data, and the store after it
memoized_filter_heatmap(team, match_id) ==
    cached(<<"filter_heatmap", team, match_id>>, filter_heatmap(team, match_id))

store_filter_heatmap(kept, team, match_id) ==
    cache_store(kept, <<"filter_heatmap", team, match_id>>,
                filter_heatmap(team, match_id))

filter_shots(team, match_id) ==
    LET shots == reset_index(team_events("Shot", team, match_id))
    IN  IF location_raises(shots) THEN Error("MalformedLiteral")
        ELSE [status |-> "ok", shots |-> decode_location_column(shots)]

\* a call of filter_shots under @st.cache_data, and the store after it
memoized_filter_shots(team, match_id) ==
    cached(<<"filter_shots", team, match_id>>, filter_shots(team, match_id))

store_filter_shots(kept, team, match_id) ==
    cache_store(kept, <<"filter_shots", team, match_id>>,
                filter_shots(team, match_id))

\* the penalties are kept
keep_penalties(shots) == shots

\* shots[shots["shot_type"] != "Penalty"]
drop_penalties(shots) == SelectSeq(shots, LAMBDA e : e.shot_type # "Penalty")

\* shot_map(team, match_id): the points handed to pitch.scatter, one per
\* shot; shot['location'][0] of a null or a number raises TypeError
shot_map(team, match_id) ==
    LET filtered == memoized_filter_shots(team, match_id)
        shots == drop_penalties(filtered.shots)
    IN  IF filtered.status # "ok" THEN filtered
        ELSE IF \E i \in 1..Len(shots) : ~is_list(shots[i].location)
        THEN Error("TypeError")
        ELSE [status |-> "ok",
              points |-> Map(shots, LAMBDA e : [id |-> e.id, x |-> e.location.x,
                                                y |-> e.location.y])]

-----------------------------------------------------------------------------
(* The StatsBomb frames of the selected match: Sbopen().event, Sbopen().lineup *)

\* player_id 0 stands for a null pass_recipient_id
NoPlayer == 0

FramePass(team, passer, recipient, minute, outcome, x, y) ==
    [team_name |-> team, type_name |-> "Pass", minute |-> minute,
     player_id |-> passer, pass_recipient_id |-> recipient,
     outcome_name |-> outcome, x |-> x, y |-> y]

FrameSubstitution(team, player, minute) ==
    [team_name |-> team, type_name |-> "Substitution", minute |-> minute,
     player_id |-> player, pass_recipient_id |-> NoPlayer,
     outcome_name |-> None, x |-> 0, y |-> 0]

\* the rows an event frame is drawn from: passes between the players 1, 2
\* and 3 of Spain before, between and after the substitutions, a failed
\* pass, a pass without recipient, a pass of France, and substitutions of
\* both teams
FrameRows ==
    {FramePass("Spain", 1, 2, 10, None, 10, 20),
     FramePass("Spain", 1, 2, 20, None, 30, 41),
     FramePass("Spain", 2, 1, 5, None, 50, 60),
     FramePass("Spain", 1, 2, 30, None, 70, 10),
     FramePass("Spain", 1, 3, 10, None, 20, 30),
     FramePass("Spain", 3, 1, 10, None, 60, 70),
     FramePass("Spain", 1, 2, 10, "Incomplete", 15, 25),
     FramePass("Spain", 1, NoPlayer, 10, None, 90, 40),
     FramePass("France", 4, 5, 10, None, 80, 35),
     FrameSubstitution("Spain", 2, 30),
     FrameSubstitution("Spain", 1, 40),
     FrameSubstitution("France", 5, 15)}

\* the frame lists the events of the match in the order of play
Chronological(rows) ==
    \A i, j \in 1..Len(rows) : i < j => rows[i].minute <= rows[j].minute

EventFrames ==
    {WithIndex(rows) : rows \in {r \in SeqsUpTo(FrameRows, MaxFrame) : Chronological(r)}}

LineupRow(player_id, nickname, jersey, team) ==
    [player_id |-> player_id, player_nickname |-> nickname,
     jersey_number |-> jersey, team_name |-> team]

\* the lineups of both teams; a jersey number is unique within a team only
FullLineup ==
    <<LineupRow(1, "Rodri", 7, "Spain"), LineupRow(2, "Pedri", 9, "Spain"),
      LineupRow(3, "Olmo", 4, "Spain"), LineupRow(4, "Kante", 10, "France"),
      LineupRow(5, "Mbappe", 7, "France")>>

\* the lineup frame may lack the entry of a player
LineupFrames ==
    {SelectSeq(FullLineup, LAMBDA l : l.player_id \notin missing) : missing \in {{}, {3}}}

-----------------------------------------------------------------------------
(* filter_pass_network *)

RECURSIVE Flatten(_)
Flatten(ss) == IF Len(ss) = 0 THEN <<>> ELSE Head(ss) \o Flatten(Tail(ss))

\* pd.merge(left, right, on=key), an inner join: for every row of left, in
\* order, one row per row of right with the same key
merge(left, right, Same(_, _), Joined(_, _)) ==
    Flatten([i \in 1..Len(left) |->
                LET l == left[i]
                IN  Map(SelectSeq(right, LAMBDA r : Same(l, r)), LAMBDA r : Joined(l, r))])

Min(S) == CHOOSE m \in S : \A n \in S : m <= n

\* Series.min(): NaN for a Series without values
series_min(S) == IF S = {} THEN [nan |-> TRUE, value |-> 0]
                 ELSE [nan |-> FALSE, value |-> Min(S)]

\* a variant that lets the minute of the substitution itself through
less_or_equal(minute, f) == ~f.nan /\ minute <= f.value

\* minute < firstSub: a comparison with NaN is False
less_than(minute, f) == ~f.nan /\ minute < f.value

RECURSIVE SumOf(_, _)
SumOf(rows, column) ==
    IF Len(rows) = 0 THEN 0 ELSE Head(rows)[column] + SumOf(Tail(rows), column)

\* the mean of a column, as the fraction sum / count
mean(rows, column) == [num |-> SumOf(rows, column), den |-> Len(rows)]

\* the keys of a groupby, in ascending order
RECURSIVE Ascending(_)
Ascending(S) == IF S = {} THEN <<>> ELSE <<Min(S)>> \o Ascending(S \ {Min(S)})

PairBefore(a, b) == a[1] < b[1] \/ (a[1] = b[1] /\ a[2] <= b[2])

RECURSIVE AscendingPairs(_)
AscendingPairs(S) ==
    IF S = {} THEN <<>>
    ELSE LET m == CHOOSE a \in S : \A b \in S : PairBefore(a, b)
         IN  <<m>> \o AscendingPairs(S \ {m})

\* df[df['team_name'] == team]
of_team(frame, team) == SelectSeq(frame, LAMBDA e : e.team_name = team)

of_type(frame, type) == SelectSeq(frame, LAMBDA e : e.type_name = type)

\* subs.min() over df[df['type_name'] == 'Substitution']['minute']
first_substitution(team_frame) ==
    series_min({e.minute : e \in Range(of_type(team_frame, "Substitution"))})

\* passes[passes['outcome_name'].isnull()], then [successful['minute'] < firstSub]
successful_before(passes, firstSub) ==
    SelectSeq(SelectSeq(passes, LAMBDA e : isnull(e.outcome_name)),
              LAMBDA e : less_than(e.minute, firstSub))

\* pd.merge(successful, jersey_data, on='player_id'), jersey_number -> passer
with_passer(successful, jersey_data) ==
    merge(successful, jersey_data,
          LAMBDA e, l : e.player_id = l.player_id,
          LAMBDA e, l : [passer |-> l.jersey_number,
                         player_nickname_x |-> l.player_nickname] @@ e)

\* a variant that joins how='left': a pass without a lineup entry for its
\* recipient stays, with a null recipient
with_recipient_left(successful, jersey_data) ==
    Flatten([i \in 1..Len(successful) |->
        LET e == successful[i]
            found == SelectSeq(jersey_data, LAMBDA l : e.pass_recipient_id = l.player_id)
        IN  IF Len(found) = 0
            THEN <<[recipient |-> 0, player_nickname_y |-> None] @@ e>>
            ELSE Map(found, LAMBDA l : [recipient |-> l.jersey_number,
                                        player_nickname_y |-> l.player_nickname] @@ e)])

\* pd.merge(successful, jersey_data, on='pass_recipient_id'), jersey_number -> recipient
with_recipient(successful, jersey_data) ==
    merge(successful, jersey_data,
          LAMBDA e, l : e.pass_recipient_id = l.player_id,
          LAMBDA e, l : [recipient |-> l.jersey_number,
                         player_nickname_y |-> l.player_nickname] @@ e)

\* dict(zip(successful['passer'], successful['player_nickname_x'])): the
\* last row of a passer names them
\* a variant keyed by the jersey of the recipient
dorsal_to_name_by_recipient(successful) ==
    [d \in {e.recipient : e \in Range(successful)} |->
        successful[CHOOSE i \in 1..Len(successful) :
                       successful[i].recipient = d].player_nickname_x]

dorsal_to_name_of(successful) ==
    [d \in {e.passer : e \in Range(successful)} |->
        LET last == CHOOSE i \in 1..Len(successful) :
                        /\ successful[i].passer = d
                        /\ \A j \in 1..Len(successful) :
                               successful[j].passer = d => j <= i
        IN  successful[last].player_nickname_x]

\* a variant that aggregates 'first' in place of 'mean'
average_locations_first(successful) ==
    Map(Ascending({e.passer : e \in Range(successful)}),
        LAMBDA d : LET made == SelectSeq(successful, LAMBDA e : e.passer = d)
                   IN  [passer |-> d, x |-> [num |-> made[1].x, den |-> 1],
                        y |-> [num |-> made[1].y, den |-> 1], count |-> Len(made)])

\* successful.groupby('passer').agg({'x': 'mean', 'y': 'mean', 'id': 'count'})
average_locations_of(successful) ==
    Map(Ascending({e.passer : e \in Range(successful)}),
        LAMBDA d : LET made == SelectSeq(successful, LAMBDA e : e.passer = d)
                   IN  [passer |-> d, x |-> mean(made, "x"), y |-> mean(made, "y"),
                        count |-> Len(made)])

\* successful.groupby(['passer', 'recipient']).id.count().reset_index()
pass_counts(successful) ==
    Map(AscendingPairs({<<e.passer, e.recipient>> : e \in Range(successful)}),
        LAMBDA k : [passer |-> k[1], recipient |-> k[2],
                    pass_count |-> Len(SelectSeq(successful,
                        LAMBDA e : e.passer = k[1] /\ e.recipient = k[2]))])

\* a variant with the merge on passer only
with_passer_location(pass_between, average_locations) ==
    merge(pass_between, average_locations,
          LAMBDA b, n : b.passer = n.passer,
          LAMBDA b, n : [x |-> n.x, y |-> n.y, count |-> n.count] @@ b)

\* the two merges with average_locations, on passer and on recipient
with_locations(pass_between, average_locations) ==
    merge(merge(pass_between, average_locations,
                LAMBDA b, n : b.passer = n.passer,
                LAMBDA b, n : [x |-> n.x, y |-> n.y, count |-> n.count] @@ b),
          average_locations,
          LAMBDA b, n : b.recipient = n.passer,
          LAMBDA b, n : [x_end |-> n.x, y_end |-> n.y, count_end |-> n.count] @@ b)

\* a variant that keeps the pairs with a single pass
at_least_one(pass_between) == SelectSeq(pass_between, LAMBDA b : b.pass_count >= 1)

\* pass_between[pass_between['pass_count'] > 1]
more_than_one(pass_between) == SelectSeq(pass_between, LAMBDA b : b.pass_count > 1)

\* the rows of the team's successful passes before firstSub, with the
\* jerseys of passer and recipient
resolved_passes(team) ==
    LET team_frame == of_team(df, team)
        passes == of_type(team_frame, "Pass")
        successful == successful_before(passes, first_substitution(team_frame))
    IN  with_recipient(with_passer(successful, df_lineup), df_lineup)

\* the match_id of the match whose frames df and df_lineup are
frame_match_id == 1

filter_pass_network(team) ==
    LET successful == resolved_passes(team)
        average_locations == average_locations_of(successful)
    IN  [status |-> "ok",
         pass_between |->
             more_than_one(with_locations(pass_counts(successful), average_locations)),
         average_locations |-> average_locations,
         dorsal_to_name |-> dorsal_to_name_of(successful)]


\* a call of filter_pass_network under @st.cache_data, and the store after it
memoized_filter_pass_network(team) ==
    cached(<<"filter_pass_network", team, frame_match_id>>, filter_pass_network(team))

store_filter_pass_network(kept, team) ==
    cache_store(kept, <<"filter_pass_network", team, frame_match_id>>,
                filter_pass_network(team))

-----------------------------------------------------------------------------
(* The lineup table, and the lineups tab of main *)

\* the text of a list of position dicts; a dict is modelled by its "from"
\* (None when the dict has no such key)
Positions(froms) == [t |-> "str", v |-> [i \in 1..Len(froms) |-> [from |-> froms[i]]]]

PositionTexts ==
    {Positions(<<>>), Positions(<<"00:00">>), Positions(<<"65:23">>),
     Positions(<<"00:00", "60:00">>), Positions(<<None>>)}

LineupEntry(match_id, country, jersey, positions) ==
    [match_id |-> match_id, country |-> country,
     jersey_number |-> jersey, positions |-> positions]

LineupEntries ==
       {LineupEntry(1, "Spain", j, p) : j \in {1, 2, 3}, p \in PositionTexts}
  \cup {LineupEntry(1, "France", j, p) : j \in {1, 4}, p \in PositionTexts}
  \cup {LineupEntry(2, "Spain", 1, Positions(<<"00:00">>)),
        LineupEntry(2, "France", 2, Positions(<<"65:23">>))}

\* a player is listed once in the lineup of a team in a match
OneEntryPerPlayer(rows) ==
    \A i, j \in 1..Len(rows) :
        (/\ rows[i].match_id = rows[j].match_id
         /\ rows[i].country = rows[j].country
         /\ rows[i].jersey_number = rows[j].jersey_number) => i = j

LineupTables ==
    {WithIndex(rows) :
        rows \in {r \in SeqsUpTo(LineupEntries, MaxLineup) : OneEntryPerPlayer(r)}}

\* match_details: the home and the away team of the selected match
home_team_of(match_id) == "Spain"
away_team_of(match_id) == "France"

\* DataFrame.sort_values(by="jersey_number")
RECURSIVE sort_values(_)
sort_values(rows) ==
    IF Len(rows) = 0 THEN <<>>
    ELSE LET least == CHOOSE i \in 1..Len(rows) :
                          \A j \in 1..Len(rows) :
                              \/ rows[i].jersey_number < rows[j].jersey_number
                              \/ (rows[i].jersey_number = rows[j].jersey_number /\ i <= j)
         IN  <<rows[least]>> \o
             sort_values(SubSeq(rows, 1, least - 1) \o SubSeq(rows, least + 1, Len(rows)))

\* a variant that asks every interval, not some interval, to start at 00:00
every_from_kickoff(pos) == \A i \in 1..Len(pos.v) : pos.v[i].from = "00:00"

\* any(d.get("from") == "00:00" for d in ast.literal_eval(pos))
any_from_kickoff(pos) == \E i \in 1..Len(pos.v) : pos.v[i].from = "00:00"

\* match_lineups[match_lineups["country"] == team].sort_values(by="jersey_number")
team_lineup(match_id, team) ==
    sort_values(SelectSeq(SelectSeq(lineups, LAMBDA l : l.match_id = match_id),
                          LAMBDA l : l.country = team))

starting(lineup) ==
    reset_index(SelectSeq(lineup, LAMBDA l : any_from_kickoff(l.positions)))

substitutes(lineup) ==
    reset_index(SelectSeq(lineup, LAMBDA l : ~any_from_kickoff(l.positions)))

lineups_tab(match_id) ==
    LET home_team_lineup == team_lineup(match_id, home_team_of(match_id))
        away_team_lineup == team_lineup(match_id, away_team_of(match_id))
    IN  [status |-> "ok",
         home_team_starting |-> starting(home_team_lineup),
         away_team_starting |-> starting(away_team_lineup),
         home_team_subs |-> substitutes(home_team_lineup),
         away_team_subs |-> substitutes(away_team_lineup)]

-----------------------------------------------------------------------------
(* The event tables of the two competitions *)

\* the rows the event tables of the two competitions are drawn from
CacheRows ==
    {PassRow(1, "Pedri", None, None, Loc(3, 4), Loc(5, 6)),
     PassRow(1, "Pedri", None, "Incomplete", Loc(7, 8), Loc(5, 6)),
     ShotRow(1, "Pedri", "Open Play", Loc(9, 4)),
     ShotRow(1, "Pedri", "Penalty", Loc(9, 4))}

CacheTables == {WithIndex(rows) : rows \in SeqsUpTo(CacheRows, MaxCached)}

-----------------------------------------------------------------------------
(* heatmap: the density estimation over the pass origins of a team *)

\* the dataset [team_passes['x'], team_passes['y']] as a sequence of points
dataset_of(team_passes) == Map(team_passes, LAMBDA e : [x |-> e.x, y |-> e.y])

RECURSIVE SumProduct(_, _, _)
SumProduct(points, a, b) ==
    IF Len(points) = 0 THEN 0
    ELSE Head(points)[a] * Head(points)[b] + SumProduct(Tail(points), a, b)

RECURSIVE SumCoordinate(_, _)
SumCoordinate(points, a) ==
    IF Len(points) = 0 THEN 0
    ELSE Head(points)[a] + SumCoordinate(Tail(points), a)

\* the entry (a, b) of the covariance matrix of the dataset, times the
\* positive factor n * (n - 1)
covariance(points, a, b) ==
    Len(points) * SumProduct(points, a, b)
        - SumCoordinate(points, a) * SumCoordinate(points, b)

determinant(points) ==
    covariance(points, "x", "x") * covariance(points, "y", "y")
        - covariance(points, "x", "y") * covariance(points, "x", "y")

\* the density the estimator is evaluated to on the grid of the pitch
surface(points) == [status |-> "ok", density |-> points]

\* the covariance matrix of the dataset is undefined (fewer than two
\* points) or not positive definite (all points identical, or on one line)
singular(points) == Len(points) <= 1 \/ determinant(points) = 0

\* scipy.stats.gaussian_kde(dataset), evaluated on the grid: the outcomes
\* the call can have.  The program hands the dataset to the library without
\* a check of its own; on a dataset whose covariance is singular the
\* outcome is the library's: one of its exceptions, or, where rounding lets
\* the factorisation of the matrix through, a surface.
gaussian_kde(points) ==
    IF singular(points)
    THEN {Error("ValueError"), Error("LinAlgError"), surface(points)}
    ELSE {surface(points)}

\* heatmap(team, match_id): what is drawn, or the error raised on the way
heatmap(team, match_id) ==
    LET team_passes == memoized_filter_heatmap(team, match_id)
    IN  IF team_passes.status = "error" THEN {team_passes}
        ELSE gaussian_kde(dataset_of(team_passes.team_passes))

\* the rows the event table of a heatmap is drawn from: passes of Spain from
\* four places of the pitch, one of them twice, and a pass of France
HeatmapRows ==
       {PassRow(1, "Pedri", None, po, Loc(60, 40), Loc(5, 6)) : po \in {None, "Incomplete"}}
  \cup {PassRow(1, "Pedri", None, None, Loc(l[1], l[2]), Loc(5, 6)) :
            l \in {<<3, 4>>, <<3, 8>>, <<7, 8>>}}
  \cup {PassRow(1, "Mbappe", None, None, Loc(60, 40), Loc(5, 6))}

HeatmapTables == {WithIndex(rows) : rows \in SeqsUpTo(HeatmapRows, MaxPoints)}

-----------------------------------------------------------------------------
(* The state machine *)

NoCall == [op |-> "none"]
NoRet == [status |-> "none"]

Competitions == {"UEFA Euro", "Copa América"}

\* nothing is memoized yet
NoCache == <<>>

\* the application is started with one competition, which is not changed
OneCompetition ==
    /\ selected_competition = "UEFA Euro"
    /\ other_events = <<>>
    /\ other_lineups = <<>>
    /\ cache = NoCache

\* st.sidebar.selectbox("Select a competition", ...): the script is run
\* again with the other competition, whose tables load_events and
\* load_lineups now return
SelectCompetition ==
    /\ selected_competition' = CHOOSE c \in Competitions : c # selected_competition
    /\ events' = other_events
    /\ other_events' = events
    /\ lineups' = other_lineups
    /\ other_lineups' = lineups
    /\ call' = NoCall /\ ret' = NoRet
    /\ UNCHANGED <<cache, df, df_lineup>>

FilterPasses ==
    \E player \in Players, match_id \in Matches :
        /\ call' = [op |-> "filter_passes", player |-> player, match_id |-> match_id]
        /\ ret' = memoized_filter_passes(player, match_id)
        /\ cache' = store_filter_passes(cache, player, match_id)
        /\ UNCHANGED <<selected_competition, events, other_events, df,
                       df_lineup, lineups, other_lineups>>

PassMap ==
    \E player \in Players, match_id \in Matches :
        /\ call' = [op |-> "pass_map", player |-> player, match_id |-> match_id]
        /\ ret' = memoized_pass_map(player, match_id)
        /\ cache' = store_pass_map(cache, player, match_id)
        /\ UNCHANGED <<selected_competition, events, other_events, df,
                       df_lineup, lineups, other_lineups>>

FilterHeatmap ==
    \E team \in Teams, match_id \in Matches :
        /\ call' = [op |-> "filter_heatmap", team |-> team, match_id |-> match_id]
        /\ ret' = memoized_filter_heatmap(team, match_id)
        /\ cache' = store_filter_heatmap(cache, team, match_id)
        /\ UNCHANGED <<selected_competition, events, other_events, df,
                       df_lineup, lineups, other_lineups>>

Heatmap ==
    \E team \in Teams, match_id \in Matches :
        /\ call' = [op |-> "heatmap", team |-> team, match_id |-> match_id]
        /\ ret' \in heatmap(team, match_id)
        /\ cache' = store_filter_heatmap(cache, team, match_id)
        /\ UNCHANGED <<selected_competition, events, other_events, df,
                       df_lineup, lineups, other_lineups>>

FilterShots ==
    \E team \in Teams, match_id \in Matches :
        /\ call' = [op |-> "filter_shots", team |-> team, match_id |-> match_id]
        /\ ret' = memoized_filter_shots(team, match_id)
        /\ cache' = store_filter_shots(cache, team, match_id)
        /\ UNCHANGED <<selected_competition, events, other_events, df,
                       df_lineup, lineups, other_lineups>>

ShotMap ==
    \E team \in Teams, match_id \in Matches :
        /\ call' = [op |-> "shot_map", team |-> team, match_id |-> match_id]
        /\ ret' = shot_map(team, match_id)
        /\ cache' = store_filter_shots(cache, team, match_id)
        /\ UNCHANGED <<selected_competition, events, other_events, df,
                       df_lineup, lineups, other_lineups>>

FilterPassNetwork ==
    \E team \in Teams :
        /\ call' = [op |-> "filter_pass_network", team |-> team]
        /\ ret' = memoized_filter_pass_network(team)
        /\ cache' = store_filter_pass_network(cache, team)
        /\ UNCHANGED <<selected_competition, events, other_events, df,
                       df_lineup, lineups, other_lineups>>

LineupsTab ==
    \E match_id \in Matches :
        /\ call' = [op |-> "lineups_tab", match_id |-> match_id]
        /\ ret' = lineups_tab(match_id)
        /\ UNCHANGED <<selected_competition, events, other_events, cache, df,
                       df_lineup, lineups, other_lineups>>

\* the passes tab: the event table of the competition holds passes
InitPasses ==
    /\ events \in PassTables
    /\ df = <<>> /\ df_lineup = <<>> /\ lineups = <<>>
    /\ OneCompetition
    /\ call = NoCall /\ ret = NoRet

NextPasses == FilterPasses \/ PassMap

SpecPasses == InitPasses /\ [][NextPasses]_vars

\* the shots tab: the event table of the competition holds shots
InitShots ==
    /\ events \in ShotTables
    /\ df = <<>> /\ df_lineup = <<>> /\ lineups = <<>>
    /\ OneCompetition
    /\ call = NoCall /\ ret = NoRet

NextShots == FilterShots \/ ShotMap

SpecShots == InitShots /\ [][NextShots]_vars

\* the heatmap tab: the event table holds passes of a match
InitHeatmap ==
    /\ events \in HeatmapTables
    /\ df = <<>> /\ df_lineup = <<>> /\ lineups = <<>>
    /\ OneCompetition
    /\ call = NoCall /\ ret = NoRet

NextHeatmap == FilterHeatmap \/ Heatmap

SpecHeatmap == InitHeatmap /\ [][NextHeatmap]_vars

\* the calls of all tabs of the event table
NextEvents == NextPasses \/ NextHeatmap \/ NextShots

\* The functions of the event table across changes of the competition.
\* Both competitions have an event table; the sidebar changes the selected
\* one.
InitCache ==
    /\ selected_competition \in Competitions
    /\ events \in CacheTables
    /\ other_events \in CacheTables
    /\ cache = NoCache
    /\ df = <<>> /\ df_lineup = <<>> /\ lineups = <<>> /\ other_lineups = <<>>
    /\ call = NoCall /\ ret = NoRet

NextCache == SelectCompetition \/ NextEvents

SpecCache == InitCache /\ [][NextCache]_vars

InitNetwork ==
    /\ df \in EventFrames
    /\ df_lineup \in LineupFrames
    /\ events = <<>> /\ lineups = <<>>
    /\ OneCompetition
    /\ call = NoCall /\ ret = NoRet

NextNetwork == FilterPassNetwork

SpecNetwork == InitNetwork /\ [][NextNetwork]_vars

InitLineups ==
    /\ lineups \in LineupTables
    /\ events = <<>> /\ df = <<>> /\ df_lineup = <<>>
    /\ OneCompetition
    /\ call = NoCall /\ ret = NoRet

NextLineups == LineupsTab

SpecLineups == InitLineups /\ [][NextLineups]_vars

\* the application as a whole: any of the tables loaded, any call made
Init ==
    \/ InitPasses \/ InitShots \/ InitHeatmap \/ InitCache
    \/ InitNetwork \/ InitLineups

Next == NextCache \/ NextNetwork \/ NextLineups

Spec == Init /\ [][Next]_vars

-----------------------------------------------------------------------------
(* Properties of filter_passes *)

Returned(op) == call.op = op /\ ret.status = "ok"

\* the Pass events of the match made by the player that are no throw-ins
NonThrowInPasses(player, match_id) ==
    {events[i].id : i \in {j \in 1..Len(events) :
        /\ events[j].type = "Pass"
        /\ events[j].match_id = match_id
        /\ events[j].player = player
        /\ events[j].pass_type # "Throw-in"}}

\* the events that carry a location and a pass_end_location
BothLocations ==
    {events[i].id : i \in {j \in 1..Len(events) :
        events[j].location.t # "null" /\ events[j].pass_end_location.t # "null"}}

EventOf(id) == events[CHOOSE i \in 1..Len(events) : events[i].id = id]

Partitioned(universe) ==
    /\ Ids(ret.successful) \cap Ids(ret.unsuccessful) = {}
    /\ Ids(ret.successful) \cup Ids(ret.unsuccessful) = universe
    /\ \A id \in universe :
           Occurrences(ret.successful, id) + Occurrences(ret.unsuccessful, id) = 1

\* C1 as stated: the two sets filter_passes returns are disjoint and their
\* union is the set of all non-throw-in Pass events of the match by the player.
C1_PartitionOfAllPasses ==
    Returned("filter_passes") => Partitioned(NonThrowInPasses(call.player, call.match_id))

\* C1 amended: whenever filter_passes returns, the two sets are disjoint and
\* every non-throw-in Pass event of the match by the player that carries both
\* a location and a pass_end_location is in exactly one of them, and nothing
\* else is in either.
C1_PartitionOfLocatedPasses ==
    Returned("filter_passes") =>
        Partitioned(NonThrowInPasses(call.player, call.match_id) \cap BothLocations)

C1_Witness ==
    /\ Returned("filter_passes")
    /\ Len(ret.successful) = 1
    /\ Len(ret.unsuccessful) = 1

\* C2: in the result of filter_passes a pass is successful iff its
\* pass_outcome is null and unsuccessful iff it is not; no pass that carries
\* an outcome, whatever its value, is successful.
C2_OutcomeDecides ==
    Returned("filter_passes") =>
        \A id \in Ids(ret.successful) \cup Ids(ret.unsuccessful) :
            /\ id \in Ids(ret.successful) <=> EventOf(id).pass_outcome = None
            /\ id \in Ids(ret.unsuccessful) <=> EventOf(id).pass_outcome # None

C2_Witness ==
    /\ Returned("filter_passes")
    /\ \E i \in 1..Len(ret.unsuccessful) : ret.unsuccessful[i].pass_outcome = "Out"
    /\ Len(ret.successful) = 1

\* C3: every pass filter_passes returns is a Pass event of the requested
\* match, made by the requested player, and no throw-in.
C3_OnlyRequestedPasses ==
    Returned("filter_passes") =>
        \A id \in Ids(ret.successful) \cup Ids(ret.unsuccessful) :
            /\ EventOf(id).type = "Pass"
            /\ EventOf(id).match_id = call.match_id
            /\ EventOf(id).player = call.player
            /\ EventOf(id).pass_type # "Throw-in"

\* a throw-in of the player and a pass of another player were left out
C3_Witness ==
    /\ Returned("filter_passes")
    /\ Len(ret.successful) + Len(ret.unsuccessful) = 1
    /\ \E i \in 1..Len(events) :
           /\ events[i].match_id = call.match_id
           /\ events[i].type = "Pass"
           /\ events[i].player = call.player
           /\ events[i].pass_type = "Throw-in"
           /\ events[i].id \in BothLocations

-----------------------------------------------------------------------------
(* Absent locations *)

\* the events of the match of the given type and team, as the table has them
TeamEventIndexes(type, team, match_id) ==
    {i \in 1..Len(events) : /\ events[i].type = type
                            /\ events[i].team = team
                            /\ events[i].match_id = match_id}

NoNullLocation(rows) == \A i \in 1..Len(rows) : rows[i].location.t # "null"

\* C10 as stated: an event whose location is absent is filtered out before
\* the coordinates are extracted, in load_passes, in filter_heatmap and in
\* filter_shots: the call goes through with the located events only, and no
\* row with an absent location is in its result.
C10_AbsentLocationsFilteredOut ==
    /\ Returned("filter_passes") =>
           NoNullLocation(ret.successful) /\ NoNullLocation(ret.unsuccessful)
    /\ call.op = "filter_heatmap" =>
           LET mine == TeamEventIndexes("Pass", call.team, call.match_id)
               located == {i \in mine : events[i].location.t # "null"}
           IN  (/\ located # {}
                /\ \A i \in mine : events[i].location.t # "badstr")
               => /\ ret.status = "ok"
                  /\ Ids(ret.team_passes) = {events[i].id : i \in located}
    /\ Returned("filter_shots") => NoNullLocation(ret.shots)

-----------------------------------------------------------------------------
(* Properties of filter_pass_network *)

InLineup(player_id) == \E l \in Range(df_lineup) : l.player_id = player_id

JerseyOf(player_id) ==
    (CHOOSE l \in Range(df_lineup) : l.player_id = player_id).jersey_number

FrameEvent(id) == df[CHOOSE i \in 1..Len(df) : df[i].id = id]

SubstitutionMinutes(teams) ==
    {df[i].minute : i \in {j \in 1..Len(df) :
        df[j].type_name = "Substitution" /\ df[j].team_name \in teams}}

\* the passes of the team that have no outcome
SuccessfulPasses(team) ==
    {df[i].id : i \in {j \in 1..Len(df) :
        /\ df[j].type_name = "Pass"
        /\ df[j].team_name = team
        /\ df[j].outcome_name = None}}

Resolves(id) ==
    InLineup(FrameEvent(id).player_id) /\ InLineup(FrameEvent(id).pass_recipient_id)

\* the passes that are aggregated into the nodes and edges of the network
Contributing(team) == Ids(resolved_passes(team))

\* the qualifying passes of a team: successful, before the first
\* substitution of the team, passer and recipient in the lineup
Qualifying(team) ==
    {id \in SuccessfulPasses(team) :
        /\ SubstitutionMinutes({team}) # {}
        /\ FrameEvent(id).minute < Min(SubstitutionMinutes({team}))
        /\ Resolves(id)}

QualifyingBy(team, jersey) ==
    {id \in Qualifying(team) : JerseyOf(FrameEvent(id).player_id) = jersey}

RECURSIVE SumOver(_, _)
SumOver(ids, column) ==
    IF ids = {} THEN 0
    ELSE LET id == CHOOSE i \in ids : TRUE
         IN  FrameEvent(id)[column] + SumOver(ids \ {id}, column)

Nodes == ret.average_locations
Edges == ret.pass_between
HasNode(jersey) == \E i \in 1..Len(Nodes) : Nodes[i].passer = jersey

\* C4: in every network filter_pass_network returns, the passer and the
\* recipient of every edge have a node in average_locations, and no edge
\* has a pass_count of 1 or less.
C4_EdgesJoinNodes ==
    Returned("filter_pass_network") =>
        \A i \in 1..Len(Edges) :
            /\ HasNode(Edges[i].passer)
            /\ HasNode(Edges[i].recipient)
            /\ Edges[i].pass_count > 1

C4_Witness ==
    /\ Returned("filter_pass_network")
    /\ Len(Edges) = 1
    /\ Len(Nodes) = 2
    /\ \E id \in Contributing(call.team) :
           JerseyOf(FrameEvent(id).player_id) # Edges[1].passer

\* C5 as stated: every pass that contributes to the network of a team is a
\* pass of that team without outcome whose minute is less than the least
\* minute of the Substitution events of the match, of either team.
C5_BeforeFirstSubstitutionOfMatch ==
    Returned("filter_pass_network") =>
        \A id \in Contributing(call.team) :
            /\ id \in SuccessfulPasses(call.team)
            /\ \A m \in SubstitutionMinutes(Teams) : FrameEvent(id).minute < m

\* C5 amended: every pass that contributes to the network of a team is a
\* pass of that team without outcome, the team has a Substitution event,
\* and the minute of the pass is less than the least minute of the
\* Substitution events of that team.
C5_BeforeFirstSubstitutionOfTeam ==
    Returned("filter_pass_network") =>
        \A id \in Contributing(call.team) :
            /\ id \in SuccessfulPasses(call.team)
            /\ SubstitutionMinutes({call.team}) # {}
            /\ FrameEvent(id).minute < Min(SubstitutionMinutes({call.team}))

\* a pass counted, and a pass at the minute of the substitution left out
C5_Witness ==
    /\ Returned("filter_pass_network")
    /\ Len(Nodes) >= 1
    /\ \E id \in SuccessfulPasses(call.team) \ Contributing(call.team) :
           /\ Resolves(id)
           /\ FrameEvent(id).minute = Min(SubstitutionMinutes({call.team}))

\* C6 as stated: when the team's frame has no Substitution event, every
\* successful pass of the team whose passer and recipient resolve
\* contributes to the network, and its passer has a node.
C6_NoSubstitutionIsInfinity ==
    (Returned("filter_pass_network") /\ SubstitutionMinutes({call.team}) = {}) =>
        \A id \in SuccessfulPasses(call.team) :
            Resolves(id) =>
                /\ id \in Contributing(call.team)
                /\ HasNode(JerseyOf(FrameEvent(id).player_id))

\* C7: average_locations has exactly one node per jersey with at least one
\* qualifying pass and none for any other jersey; the count of a node is the
\* number of qualifying passes of its player and its x and y are the means
\* of the origins of those passes.
C7_NodesAggregateQualifyingPasses ==
    Returned("filter_pass_network") =>
        /\ {Nodes[i].passer : i \in 1..Len(Nodes)} =
              {JerseyOf(FrameEvent(id).player_id) : id \in Qualifying(call.team)}
        /\ \A i, j \in 1..Len(Nodes) : Nodes[i].passer = Nodes[j].passer => i = j
        /\ \A i \in 1..Len(Nodes) :
              LET made == QualifyingBy(call.team, Nodes[i].passer)
              IN  /\ Nodes[i].count = Cardinality(made)
                  /\ Nodes[i].x.num * Cardinality(made) = SumOver(made, "x") * Nodes[i].x.den
                  /\ Nodes[i].y.num * Cardinality(made) = SumOver(made, "y") * Nodes[i].y.den
                  /\ Nodes[i].x.den > 0 /\ Nodes[i].y.den > 0

\* the scenario of the claim: 7->9 at minutes 10 and 20, 9->7 at minute 5,
\* a substitution at minute 30
C7_Witness ==
    /\ Returned("filter_pass_network")
    /\ Len(df) = 4
    /\ {<<FrameEvent(id).player_id, FrameEvent(id).pass_recipient_id, FrameEvent(id).minute>> :
            id \in Qualifying(call.team)} = {<<1, 2, 10>>, <<1, 2, 20>>, <<2, 1, 5>>}
    /\ SubstitutionMinutes(Teams) = {30}
    /\ Len(Nodes) = 2
    /\ Nodes[1].passer = 7 /\ Nodes[1].count = 2
    /\ Nodes[1].x = [num |-> 40, den |-> 2] /\ Nodes[1].y = [num |-> 61, den |-> 2]
    /\ Nodes[2].passer = 9 /\ Nodes[2].count = 1
    /\ Len(Edges) = 1
    /\ Edges[1].passer = 7 /\ Edges[1].recipient = 9 /\ Edges[1].pass_count = 2

\* C8: filter_pass_network returns, without an error, also when the passer
\* or the recipient of a pass has no lineup entry; such a pass is not
\* aggregated, and every successful pass before the team's first
\* substitution whose passer and recipient resolve is aggregated exactly once.
C8_UnresolvedPassesDropped ==
    call.op = "filter_pass_network" =>
        /\ ret.status = "ok"
        /\ \A id \in SuccessfulPasses(call.team) :
              Occurrences(resolved_passes(call.team), id) =
                  IF id \in Qualifying(call.team) THEN 1 ELSE 0

\* a pass to a player without lineup entry was dropped, another was counted
C8_Witness ==
    /\ Returned("filter_pass_network")
    /\ Len(Nodes) >= 1
    /\ \E id \in SuccessfulPasses(call.team) \ Contributing(call.team) :
           /\ ~InLineup(FrameEvent(id).pass_recipient_id)
           /\ FrameEvent(id).pass_recipient_id # NoPlayer
           /\ FrameEvent(id).minute < Min(SubstitutionMinutes({call.team}) \cup {100})
    /\ \E id \in SuccessfulPasses(call.team) \ Contributing(call.team) :
           /\ ~InLineup(FrameEvent(id).player_id)
           /\ FrameEvent(id).minute < Min(SubstitutionMinutes({call.team}) \cup {100})

-----------------------------------------------------------------------------
(* Properties of the lineups tab *)

\* the entries of a team in a match, as the table has them
EntriesOf(match_id, team) ==
    {lineups[i].id : i \in {j \in 1..Len(lineups) :
        lineups[j].match_id = match_id /\ lineups[j].country = team}}

EntryOf(id) == lineups[CHOOSE i \in 1..Len(lineups) : lineups[i].id = id]

StartsAtKickoff(id) ==
    \E i \in 1..Len(EntryOf(id).positions.v) : EntryOf(id).positions.v[i].from = "00:00"

AscendingJerseys(rows) ==
    \A i, j \in 1..Len(rows) : i < j => rows[i].jersey_number <= rows[j].jersey_number

SplitOf(entries, first, rest) ==
    /\ Ids(first) \cap Ids(rest) = {}
    /\ Ids(first) \cup Ids(rest) = entries
    /\ \A id \in entries : Occurrences(first, id) + Occurrences(rest, id) = 1
    /\ \A id \in entries : id \in Ids(first) <=> StartsAtKickoff(id)
    /\ AscendingJerseys(first)
    /\ AscendingJerseys(rest)

\* C9: for each team of the match, Starting XI and Substitutes are disjoint
\* and hold every lineup entry of the team exactly once; an entry is in the
\* Starting XI iff some element of its positions has from = "00:00"; both
\* lists are in ascending order of jersey number.
C9_StartingAndSubstitutes ==
    Returned("lineups_tab") =>
        /\ SplitOf(EntriesOf(call.match_id, home_team_of(call.match_id)),
                   ret.home_team_starting, ret.home_team_subs)
        /\ SplitOf(EntriesOf(call.match_id, away_team_of(call.match_id)),
                   ret.away_team_starting, ret.away_team_subs)

\* a team listed out of order, with a starter, a late entrant and a player
\* without positions
C9_Witness ==
    /\ Returned("lineups_tab")
    /\ Len(ret.home_team_starting) = 1
    /\ Len(ret.home_team_subs) = 2
    /\ \E i, j \in 1..Len(lineups) : i < j /\ lineups[i].jersey_number > lineups[j].jersey_number
    /\ \E i, j \in 1..2 :
           /\ Len(ret.home_team_subs[i].positions.v) = 0
           /\ Len(ret.home_team_subs[j].positions.v) = 1
           /\ ret.home_team_subs[j].positions.v[1].from = "65:23"


-----------------------------------------------------------------------------
(* Properties of the decoding of location fields *)

\* the rows a returned call of the events functions hands back
ResultRows ==
    IF Returned("filter_passes") THEN Range(ret.successful) \cup Range(ret.unsuccessful)
    ELSE IF Returned("filter_heatmap") THEN Range(ret.team_passes)
    ELSE IF Returned("filter_shots") THEN Range(ret.shots)
    ELSE {}

\* a cell that holds the native list, or no value at all
NativeOrAbsent(loc) == is_list(loc) \/ ~loc_notnull(loc)

\* the cell holds the pair the source cell was written with
SamePair(loc, source) == loc = Loc(source.x, source.y)

\* C11 as stated: a call that decodes location fields either raises or
\* returns rows whose decoded fields (location, and pass_end_location in
\* filter_passes) are the native lists (a value that is no list, such as a
\* number or the text of one, never reaches the result), and a location
\* given as the text of a list is returned as the same pair as the native
\* list.
C11_DecodedOrError ==
    \A row \in ResultRows :
        /\ NativeOrAbsent(row.location)
        /\ Returned("filter_passes") => NativeOrAbsent(row.pass_end_location)
        /\ EventOf(row.id).location.t \in {"list", "str"}
               => SamePair(row.location, EventOf(row.id).location)


-----------------------------------------------------------------------------
(* Properties of heatmap *)

\* the origins of the passes of the team in the match
Origins(team, match_id) ==
    {events[i].location : i \in TeamEventIndexes("Pass", team, match_id)}

PassCount(team, match_id) == Cardinality(TeamEventIndexes("Pass", team, match_id))

\* fewer than two points, or all points identical
Degenerate(team, match_id) ==
    PassCount(team, match_id) < 2 \/ Cardinality(Origins(team, match_id)) = 1

\* C12 as stated: over fewer than two points (a team without passes in the
\* match included), or over points that are all identical, the heatmap ends
\* in the explicit insufficient-data error and draws no density surface.
C12_InsufficientDataError ==
    (call.op = "heatmap" /\ Degenerate(call.team, call.match_id))
        => ret = Error("InsufficientDataError")

-----------------------------------------------------------------------------
(* Properties of the memoization *)

\* what the body of the function called last computes from the events of
\* the competition that is selected now
Recomputed ==
    IF call.op = "filter_passes" THEN filter_passes(call.player, call.match_id)
    ELSE IF call.op = "filter_heatmap" THEN filter_heatmap(call.team, call.match_id)
    ELSE IF call.op = "filter_shots" THEN filter_shots(call.team, call.match_id)
    ELSE ret

\* C13 as stated: after any sequence of calls and changes of the selected
\* competition, what a memoized filter_passes, filter_heatmap or filter_shots
\* returns is what recomputing the call from the events of the competition
\* selected now returns.
C13_MemoizedEqualsRecomputed == ret = Recomputed



-----------------------------------------------------------------------------
(* Properties of filter_shots and shot_map *)

\* the Shot events of the team in the match
TeamShots(team, match_id) ==
    {events[i].id : i \in TeamEventIndexes("Shot", team, match_id)}

\* every event of the set is in the rows, once, and nothing else is
ExactlyOnce(rows, ids) ==
    /\ Ids(rows) = ids
    /\ \A id \in ids : Occurrences(rows, id) = 1

\* C14: filter_shots(team, match_id) returns exactly the Shot events of the
\* team in the match, penalties included, and shot_map plots exactly those
\* of them whose shot_type is not Penalty: no penalty is drawn and no other
\* shot of the team is left out.
C14_ShotsWithoutPenaltiesPlotted ==
    /\ Returned("filter_shots") =>
           ExactlyOnce(ret.shots, TeamShots(call.team, call.match_id))
    /\ Returned("shot_map") =>
           ExactlyOnce(ret.points,
                       {id \in TeamShots(call.team, call.match_id) :
                            EventOf(id).shot_type # "Penalty"})

\* the team took a penalty and another shot, and the shot map shows one point
C14_Witness ==
    /\ Returned("shot_map")
    /\ Len(ret.points) = 1
    /\ Cardinality(TeamShots(call.team, call.match_id)) = 2
    /\ \E id \in TeamShots(call.team, call.match_id) :
           EventOf(id).shot_type = "Penalty"


-----------------------------------------------------------------------------
(* Properties of the edges of the pass network *)

\* the jersey numbers of the lineup frame
Jerseys == {l.jersey_number : l \in Range(df_lineup)}

\* the qualifying passes of the team from one jersey to another
QualifyingBetween(team, passer, recipient) ==
    {id \in QualifyingBy(team, passer) :
        JerseyOf(FrameEvent(id).pass_recipient_id) = recipient}

\* the rows of pass_between for the pair
EdgesBetween(passer, recipient) ==
    {i \in 1..Len(Edges) :
        Edges[i].passer = passer /\ Edges[i].recipient = recipient}

\* C15 as stated: an edge (passer, recipient) is in the network iff the
\* number of qualifying passes from passer to recipient is greater than 1,
\* and its pass_count is that number; a pair with 2 or more qualifying
\* passes is retained also when the recipient made no qualifying pass.
C15_EdgeIffMoreThanOnePass ==
    Returned("filter_pass_network") =>
        \A passer \in Jerseys, recipient \in Jerseys :
            LET passes == QualifyingBetween(call.team, passer, recipient)
            IN  /\ EdgesBetween(passer, recipient) # {} <=> Cardinality(passes) > 1
                /\ \A i \in EdgesBetween(passer, recipient) :
                       Edges[i].pass_count = Cardinality(passes)

\* C15, amended: an edge (passer, recipient) is in the network, once, iff
\* the number of qualifying passes from passer to recipient is greater than
\* 1 and the recipient made a qualifying pass of their own (has a node);
\* its pass_count is that number.
C15_EdgeIffMoreThanOnePassToNode ==
    Returned("filter_pass_network") =>
        \A passer \in Jerseys, recipient \in Jerseys :
            LET passes == QualifyingBetween(call.team, passer, recipient)
            IN  /\ EdgesBetween(passer, recipient) # {} <=>
                       /\ Cardinality(passes) > 1
                       /\ QualifyingBy(call.team, recipient) # {}
                /\ Cardinality(EdgesBetween(passer, recipient)) <= 1
                /\ \A i \in EdgesBetween(passer, recipient) :
                       Edges[i].pass_count = Cardinality(passes)

\* two qualifying passes from 7 to 9, none made by 9: the network has the
\* node 7 and no edge
C15_Witness ==
    /\ Returned("filter_pass_network")
    /\ Cardinality(QualifyingBetween(call.team, 7, 9)) = 2
    /\ QualifyingBy(call.team, 9) = {}
    /\ Len(Nodes) = 1
    /\ Len(Edges) = 0


-----------------------------------------------------------------------------
(* Properties of the legend and of the counts of the pass network *)

\* the rows of a table of pairs whose passer is the jersey
Outgoing(pairs, jersey) == SelectSeq(pairs, LAMBDA b : b.passer = jersey)

\* the pairs of the network before the merges and the pruning
AllPairs == pass_counts(resolved_passes(call.team))

\* C16: in every network filter_pass_network returns, the jerseys of the
\* legend dorsal_to_name are the jerseys of the nodes, and for every node
\* the pass_counts of its retained outgoing edges add up to at most its
\* count, which is the sum over all its outgoing pairs before pruning.
C16_LegendAndCounts ==
    Returned("filter_pass_network") =>
        /\ DOMAIN ret.dorsal_to_name = {Nodes[i].passer : i \in 1..Len(Nodes)}
        /\ \A i \in 1..Len(Nodes) :
               /\ SumOf(Outgoing(Edges, Nodes[i].passer), "pass_count") <= Nodes[i].count
               /\ SumOf(Outgoing(AllPairs, Nodes[i].passer), "pass_count") = Nodes[i].count

\* two nodes in the legend: the two passes of one are its retained edge,
\* the single pass of the other is pruned
C16_Witness ==
    /\ Returned("filter_pass_network")
    /\ Cardinality(DOMAIN ret.dorsal_to_name) = 2
    /\ \E i, j \in 1..Len(Nodes) :
           /\ Nodes[i].count = 2
           /\ SumOf(Outgoing(Edges, Nodes[i].passer), "pass_count") = 2
           /\ Nodes[j].count = 1
           /\ SumOf(Outgoing(Edges, Nodes[j].passer), "pass_count") = 0

=============================================================================
